---- MODULE Spec2Model ----
(***************************************************************************)
(* Model of api/transact.py: the Invocation value type and the TxManager   *)
(* client (owner, execute).  One call of one operation is modelled from     *)
(* its arguments (drawn by Init) to its outcome; the remote contract and    *)
(* the receipt resolver are the environment and answer nondeterminis-       *)
(* tically with a value or an error.                                        *)
(*                                                                          *)
(* Python values are records carrying their type; bytes are sequences of    *)
(* 0..255.                                                                  *)
(***************************************************************************)
EXTENDS Integers, Sequences, FiniteSets, TLC

VARIABLES op, tokens, invocations, address, calldata, self,
          pc, args, tx_hash, remote, outcome

vars == <<op, tokens, invocations, address, calldata, self,
          pc, args, tx_hash, remote, outcome>>

(* ---------------------------- bounds ---------------------------------- *)
MaxTokens == 2
MaxInvocations == 2
MaxBoundaryInvocations == 2

(* --------------------------- constants -------------------------------- *)
HeaderLen == 32
AddressLen == 20

(* ------------------------- Python values ------------------------------ *)
None == [type |-> "NoneType"]
PyStr(b) == [type |-> "str", value |-> b]
PyList(s) == [type |-> "list", items |-> s]
PyTuple(s) == [type |-> "tuple", items |-> s]
Address(raw) == [type |-> "Address", address |-> raw]
Calldata(b) == [type |-> "Calldata", value |-> b]
Receipt(h) == [type |-> "Receipt", transaction_hash |-> h]
Hash(h) == [type |-> "HexBytes", hex |-> h]

Return(v) == [kind |-> "return", value |-> v]
Raise(e) == [kind |-> "raise", exc |-> e]
Pending == [kind |-> "pending"]

isinstance(x, t) == x.type = t

hasattr(x, name) == name \in DOMAIN x

has_as_bytes(x) == x.type \in {"Address", "Calldata"}

as_bytes(x) == IF x.type = "Address" THEN x.address.value ELSE x.value

(* ------------------------- Invocation --------------------------------- *)
NewObject == [type |-> "Invocation"]

Invocation(a, c) == [type |-> "Invocation", address |-> a, calldata |-> c]

Invocation_init_unchecked(a, c) ==
    [self |-> Invocation(a, c),
     outcome |-> IF isinstance(a, "Address") /\ isinstance(c, "Calldata")
                 THEN Return(Invocation(a, c)) ELSE Raise("AssertionError")]

Invocation_init(a, c) ==
    IF ~isinstance(a, "Address") THEN [self |-> NewObject, outcome |-> Raise("AssertionError")]
    ELSE IF ~isinstance(c, "Calldata") THEN [self |-> NewObject, outcome |-> Raise("AssertionError")]
    ELSE [self |-> Invocation(a, c), outcome |-> Return(Invocation(a, c))]

(* --------------------------- owner ------------------------------------ *)
owner_swallow(r) == IF r.kind = "raise" THEN Return(None) ELSE Return(Address(r.value))

owner(r) == IF r.kind = "raise" THEN r ELSE Return(Address(r.value))

(* -------------------------- execute ----------------------------------- *)
isinstance_sequence(x) == x.type \in {"list", "tuple"}

isinstance_list(x) == isinstance(x, "list")

token_addresses_reversed(toks) ==
    IF \E i \in 1..Len(toks.items) : ~hasattr(toks.items[i], "address")
    THEN Raise("AttributeError")
    ELSE Return(PyList([i \in 1..Len(toks.items) |->
                           toks.items[Len(toks.items) + 1 - i].address]))

token_addresses(toks) ==
    IF \E i \in 1..Len(toks.items) : ~hasattr(toks.items[i], "address")
    THEN Raise("AttributeError")
    ELSE Return(PyList([i \in 1..Len(toks.items) |-> toks.items[i].address]))

RECURSIVE to_bytes(_, _)
to_bytes(n, length) ==
    IF length = 0 THEN <<>> ELSE to_bytes(n \div 256, length - 1) \o <<n % 256>>

RECURSIVE to_bytes_little(_, _)
to_bytes_little(n, length) ==
    IF length = 0 THEN <<>> ELSE <<n % 256>> \o to_bytes_little(n \div 256, length - 1)

encodable(invocation) ==
    /\ hasattr(invocation, "address")
    /\ has_as_bytes(invocation.address)
    /\ hasattr(invocation, "calldata")
    /\ has_as_bytes(invocation.calldata)

script_entry_little(invocation) ==
    IF ~encodable(invocation) THEN Raise("AttributeError")
    ELSE LET body == as_bytes(invocation.address) \o as_bytes(invocation.calldata)
             header == to_bytes_little(Len(body), HeaderLen)
         IN Return(header \o body)

script_entry_calldata_len(invocation) ==
    IF ~encodable(invocation) THEN Raise("AttributeError")
    ELSE LET body == as_bytes(invocation.address) \o as_bytes(invocation.calldata)
             header == to_bytes(Len(as_bytes(invocation.calldata)), HeaderLen)
         IN Return(header \o body)

script_entry(invocation) ==
    IF ~encodable(invocation) THEN Raise("AttributeError")
    ELSE LET body == as_bytes(invocation.address) \o as_bytes(invocation.calldata)
             header == to_bytes(Len(body), HeaderLen)
         IN Return(header \o body)

RECURSIVE reduce_add(_, _)
reduce_add(acc, items) ==
    IF items = <<>> THEN Return(acc)
    ELSE LET e == script_entry(Head(items))
         IN IF e.kind = "raise" THEN e ELSE reduce_add(acc \o e.value, Tail(items))

RECURSIVE reduce_add_swapped(_, _)
reduce_add_swapped(acc, items) ==
    IF items = <<>> THEN Return(acc)
    ELSE LET e == script_entry(Head(items))
         IN IF e.kind = "raise" THEN e ELSE reduce_add_swapped(e.value \o acc, Tail(items))

script_swapped(invs) == reduce_add_swapped(<<>>, invs.items)

script(invs) == reduce_add(<<>>, invs.items)

except_Exception(e) == e # "KeyboardInterrupt"

except_all(e) == TRUE

(* ----------------------- environment answers -------------------------- *)
Errors == {"ConnectionError", "KeyboardInterrupt"}
TxHashes == {Hash("0xaa"), Hash("0xbb")}

(* ----------------------------- inputs --------------------------------- *)
Pattern(n, k) == [i \in 1..n |-> (k * i) % 256]

AddrZero == Address(PyStr(Pattern(AddressLen, 0)))
AddrA == Address(PyStr(Pattern(AddressLen, 1)))
AddrB == Address(PyStr(Pattern(AddressLen, 255)))

SeqsUpTo(S, n) == UNION {[1..k -> S] : k \in 0..n}

Calldatas == {Calldata(<<>>), Calldata(<<7>>), Calldata(Pattern(HeaderLen, 9))}
Invocations == {Invocation(a, c) : a \in {AddrZero, AddrA}, c \in Calldatas}
TokenElems == {AddrA, AddrB, PyStr(<<1>>), Invocation(AddrA, Calldata(<<>>))}
InvocationElems == Invocations \cup {AddrB, PyStr(<<1>>)}

TokenArgs ==
    {PyList(s) : s \in SeqsUpTo(TokenElems, MaxTokens)}
        \cup {PyTuple(<<AddrA, AddrB>>), None}
InvocationArgs ==
    {PyList(s) : s \in SeqsUpTo(InvocationElems, MaxInvocations)}
        \cup {PyTuple(<<Invocation(AddrA, Calldata(<<7>>))>>), None}

CtorAddressArgs == {AddrZero, AddrA, PyStr(Pattern(AddressLen, 1)), None}
CtorCalldataArgs == Calldatas \cup {PyStr(<<7>>), AddrA, None}

BoundarySizes == {0, 1, 31, 32, 236, 10000}
BoundaryCalldatas == {Calldata(Pattern(n, 3)) : n \in BoundarySizes}
BoundaryInvocations == {Invocation(AddrA, c) : c \in BoundaryCalldatas}
BoundaryTokenArgs == {PyList(<<>>), PyList(<<AddrB, AddrA>>), None}
BoundaryInvocationArgs ==
    {PyList(s) : s \in SeqsUpTo(BoundaryInvocations, MaxBoundaryInvocations)}

(* ------------------------------ Init ---------------------------------- *)
Start ==
    /\ pc = "start"
    /\ self = None
    /\ args = None
    /\ tx_hash = None
    /\ remote = <<>>
    /\ outcome = Pending

InitCall(tokenArgs, invocationArgs, ctorAddresses, ctorCalldatas) ==
    /\ Start
    /\ \/ /\ op = "execute"
          /\ tokens \in tokenArgs
          /\ invocations \in invocationArgs
          /\ address = None /\ calldata = None
       \/ /\ op = "owner"
          /\ tokens = None /\ invocations = None
          /\ address = None /\ calldata = None
       \/ /\ op = "Invocation"
          /\ tokens = None /\ invocations = None
          /\ address \in ctorAddresses
          /\ calldata \in ctorCalldatas

Init == InitCall(TokenArgs, InvocationArgs, CtorAddressArgs, CtorCalldataArgs)

InitBoundary ==
    InitCall(BoundaryTokenArgs, BoundaryInvocationArgs,
             {AddrA, None}, BoundaryCalldatas \cup {None})

(* ----------------------------- actions -------------------------------- *)
InvocationInit ==
    /\ op = "Invocation" /\ pc = "start"
    /\ LET r == Invocation_init(address, calldata)
       IN /\ self' = r.self
          /\ outcome' = r.outcome
    /\ pc' = "done"
    /\ UNCHANGED <<op, tokens, invocations, address, calldata, args, tx_hash, remote>>

Owner ==
    /\ op = "owner" /\ pc = "start"
    /\ \E r \in {Return(a.address) : a \in {AddrA, AddrB}} \cup {Raise(e) : e \in Errors} :
          /\ remote' = Append(remote, [op |-> "call.owner", result |-> r])
          /\ outcome' = owner(r)
    /\ pc' = "done"
    /\ UNCHANGED <<op, tokens, invocations, address, calldata, self, args, tx_hash>>

Handle(e) == IF except_all(e) THEN Return(None) ELSE Raise(e)

ExecuteCheck ==
    /\ op = "execute" /\ pc = "start"
    /\ IF ~isinstance_list(tokens) \/ ~isinstance_list(invocations)
       THEN /\ outcome' = Raise("AssertionError")
            /\ pc' = "done"
            /\ args' = args
       ELSE LET t == token_addresses(tokens)
                s == IF t.kind = "raise" THEN t ELSE script(invocations)
            IN IF s.kind = "raise"
               THEN /\ outcome' = Handle(s.exc)
                    /\ pc' = "done"
                    /\ args' = args
               ELSE /\ args' = [type |-> "args", tokens |-> t.value, script |-> s.value]
                    /\ pc' = "transact"
                    /\ outcome' = outcome
    /\ UNCHANGED <<op, tokens, invocations, address, calldata, self, tx_hash, remote>>

ExecuteTransact_continue ==
    /\ pc = "transact"
    /\ \E r \in {Return(h) : h \in TxHashes} \cup {Raise(e) : e \in Errors} :
          /\ remote' = Append(remote, [op |-> "transact.execute", tokens |-> args.tokens,
                                       script |-> args.script, result |-> r])
          /\ tx_hash' = IF r.kind = "raise" THEN None ELSE r.value
          /\ pc' = "resolve"
          /\ outcome' = outcome
    /\ UNCHANGED <<op, tokens, invocations, address, calldata, self, args>>

ExecuteTransact ==
    /\ pc = "transact"
    /\ \E r \in {Return(h) : h \in TxHashes} \cup {Raise(e) : e \in Errors} :
          /\ remote' = Append(remote, [op |-> "transact.execute", tokens |-> args.tokens,
                                       script |-> args.script, result |-> r])
          /\ IF r.kind = "raise"
             THEN /\ outcome' = Handle(r.exc)
                  /\ pc' = "done"
                  /\ tx_hash' = tx_hash
             ELSE /\ tx_hash' = r.value
                  /\ pc' = "resolve"
                  /\ outcome' = outcome
    /\ UNCHANGED <<op, tokens, invocations, address, calldata, self, args>>

ExecuteResolve ==
    /\ pc = "resolve"
    /\ \E r \in {Return(Receipt(tx_hash))} \cup {Raise(e) : e \in Errors} :
          /\ remote' = Append(remote, [op |-> "_prepare_receipt", tx_hash |-> tx_hash,
                                       result |-> r])
          /\ outcome' = IF r.kind = "raise" THEN Handle(r.exc) ELSE r
    /\ pc' = "done"
    /\ UNCHANGED <<op, tokens, invocations, address, calldata, self, args, tx_hash>>

Next == InvocationInit \/ Owner \/ ExecuteCheck \/ ExecuteTransact \/ ExecuteResolve

Spec == Init /\ [][Next]_vars

SpecBoundary == InitBoundary /\ [][Next]_vars

TypeOK ==
    /\ op \in {"execute", "owner", "Invocation"}
    /\ pc \in {"start", "transact", "resolve", "done"}
    /\ Len(remote) <= 2
    /\ outcome.kind \in {"pending", "return", "raise"}

(* ===================== properties of the client ======================== *)
Submitted == op = "execute" /\ Len(remote) >= 1 /\ remote[1].op = "transact.execute"

Returned == pc = "done"

IsList(x) == x.type = "list"

WellTypedTokens ==
    IsList(tokens) /\ \A i \in 1..Len(tokens.items) : tokens.items[i].type = "Address"

WellTypedInvocations ==
    IsList(invocations)
        /\ \A i \in 1..Len(invocations.items) : invocations.items[i].type = "Invocation"

Zeros(n) == [i \in 1..n |-> 0]

AddressBytes(i) == invocations.items[i].address.address.value

CalldataBytes(i) == invocations.items[i].calldata.value

(* Value of an unsigned big-endian integer; anything that needs more than  *)
(* three bytes is reported as 2^24, which exceeds every length modelled.   *)
FromBytesBE(h) ==
    LET n == Len(h)
    IN IF \E i \in 1..(n - 3) : h[i] # 0 THEN 256 * 256 * 256
       ELSE h[n - 2] * 65536 + h[n - 1] * 256 + h[n]

(* The decoder of the on-chain contract: read a 32-byte big-endian length  *)
(* L, then L body bytes = 20-byte address followed by L - 20 calldata.      *)
RECURSIVE Decode(_)
Decode(s) ==
    IF s = <<>> THEN [ok |-> TRUE, recs |-> <<>>]
    ELSE IF Len(s) < HeaderLen THEN [ok |-> FALSE, recs |-> <<>>]
    ELSE LET L == FromBytesBE(SubSeq(s, 1, HeaderLen))
         IN IF L < AddressLen \/ Len(s) < HeaderLen + L
            THEN [ok |-> FALSE, recs |-> <<>>]
            ELSE LET rest == Decode(SubSeq(s, HeaderLen + L + 1, Len(s)))
                 IN [ok |-> rest.ok,
                     recs |-> <<[address |-> SubSeq(s, HeaderLen + 1, HeaderLen + AddressLen),
                                 calldata |-> SubSeq(s, HeaderLen + AddressLen + 1, HeaderLen + L)]>>
                              \o rest.recs]

(* Offset (0-based) of the i-th record in a script of well-typed invocations *)
RECURSIVE Offset(_)
Offset(i) ==
    IF i = 1 THEN 0
    ELSE Offset(i - 1) + HeaderLen + AddressLen + Len(CalldataBytes(i - 1))

(* C1: for a non-empty list of invocations, decoding the submitted script   *)
(* record by record consumes it exactly and yields the original             *)
(* (address, calldata) pairs, as many and in the same order.                *)
C1_RoundTrip ==
    (Submitted /\ WellTypedInvocations /\ invocations.items # <<>>) =>
        LET d == Decode(remote[1].script)
        IN /\ d.ok
           /\ Len(d.recs) = Len(invocations.items)
           /\ \A i \in 1..Len(invocations.items) :
                /\ d.recs[i].address = AddressBytes(i)
                /\ d.recs[i].calldata = CalldataBytes(i)

C1_Witness ==
    /\ Submitted /\ WellTypedInvocations
    /\ Len(invocations.items) = 2
    /\ AddressBytes(1) # AddressBytes(2)
    /\ Len(CalldataBytes(1)) = HeaderLen /\ CalldataBytes(2) = <<>>

ZeroCall == invocations = PyList(<<Invocation(AddrZero, Calldata(<<>>))>>)

(* C2 as stated: for the single invocation (20 zero bytes, empty calldata)  *)
(* the script is 52 bytes, 32 zero bytes then 20 zero bytes, and its length *)
(* field decodes to 0.                                                      *)
C2_Original ==
    (Submitted /\ ZeroCall) =>
        /\ Len(remote[1].script) = 52
        /\ remote[1].script = Zeros(32) \o Zeros(20)
        /\ FromBytesBE(SubSeq(remote[1].script, 1, HeaderLen)) = 0

(* C2 amended: for the single invocation (20 zero bytes, empty calldata)    *)
(* the script is 52 bytes: 31 zero bytes, the byte 20, then 20 zero bytes;  *)
(* its length field decodes to 20, the length of the body.                  *)
C2_ZeroScript ==
    (Submitted /\ ZeroCall) =>
        /\ Len(remote[1].script) = 52
        /\ remote[1].script = Zeros(31) \o <<20>> \o Zeros(20)
        /\ FromBytesBE(SubSeq(remote[1].script, 1, HeaderLen)) = 20

C2_Witness == Submitted /\ ZeroCall /\ Returned

RemoteRaised == \E i \in 1..Len(remote) : remote[i].result.kind = "raise"

(* C3: if the transact or the receipt resolution raises any error, execute  *)
(* returns None and raises nothing.                                         *)
C3_ErrorsSwallowed ==
    (op = "execute" /\ RemoteRaised) => (Returned /\ outcome = Return(None))

C3_Witness ==
    /\ op = "execute" /\ Len(remote) = 2
    /\ remote[2].result = Raise("KeyboardInterrupt")
    /\ outcome = Return(None)

(* C4: owner propagates the error of the remote read unchanged, and         *)
(* otherwise returns the address the remote read returned.                  *)
C4_OwnerPropagates ==
    (op = "owner" /\ Returned) =>
        /\ Len(remote) = 1 /\ remote[1].op = "call.owner"
        /\ IF remote[1].result.kind = "raise"
           THEN outcome = Raise(remote[1].result.exc)
           ELSE /\ outcome.kind = "return"
                /\ outcome.value.type = "Address"
                /\ outcome.value.address = remote[1].result.value

C4_Witness ==
    /\ op = "owner" /\ Returned
    /\ remote[1].result = Raise("ConnectionError")
    /\ outcome.kind = "raise"

(* C5: the submitted token array has the length of the input and its i-th   *)
(* element is the raw address of the i-th token: same order, duplicates     *)
(* kept.                                                                    *)
C5_TokenOrder ==
    (Submitted /\ WellTypedTokens) =>
        /\ remote[1].tokens.type = "list"
        /\ Len(remote[1].tokens.items) = Len(tokens.items)
        /\ \A i \in 1..Len(tokens.items) :
              remote[1].tokens.items[i] = tokens.items[i].address

C5_Witness ==
    /\ Submitted
    /\ tokens = PyList(<<AddrB, AddrA>>)
    /\ remote[1].tokens.items[1] = AddrB.address

(* C6: the script is the concatenation of the entries in the order of the   *)
(* invocations: its length is the sum of 32 + 20 + len(calldata), the body  *)
(* of the i-th invocation sits right after the i-th header, and an empty    *)
(* list gives the empty script, which is still submitted.                   *)
C6_Concatenation ==
    /\ (Submitted /\ WellTypedInvocations) =>
          LET s == remote[1].script
              n == Len(invocations.items)
          IN /\ Len(s) = Offset(n + 1)
             /\ \A i \in 1..n :
                   SubSeq(s, Offset(i) + HeaderLen + 1, Offset(i + 1))
                       = AddressBytes(i) \o CalldataBytes(i)
             /\ (n = 0 => s = <<>>)
    /\ (op = "execute" /\ Returned /\ WellTypedTokens /\ invocations = PyList(<<>>)) =>
          (Submitted /\ remote[1].script = <<>>)

C6_Witness ==
    /\ Submitted /\ WellTypedInvocations
    /\ Len(invocations.items) = 2
    /\ CalldataBytes(1) = <<7>> /\ Len(CalldataBytes(2)) = HeaderLen

(* C7: the 32-byte header of every record is the unsigned big-endian        *)
(* encoding of len(address bytes) + len(calldata bytes), for every calldata *)
(* size, 0, 1, 31, 32 and 10000 included.                                   *)
C7_HeaderIsBodyLength ==
    (Submitted /\ WellTypedInvocations) =>
        LET s == remote[1].script
        IN /\ Len(s) = Offset(Len(invocations.items) + 1)
           /\ \A i \in 1..Len(invocations.items) :
                LET header == SubSeq(s, Offset(i) + 1, Offset(i) + HeaderLen)
                IN /\ Len(header) = HeaderLen
                   /\ \A k \in 1..(HeaderLen - 3) : header[k] = 0
                   /\ header[HeaderLen - 2] * 65536 + header[HeaderLen - 1] * 256
                        + header[HeaderLen]
                        = Len(AddressBytes(i)) + Len(CalldataBytes(i))

C7_Witness ==
    /\ Submitted /\ WellTypedInvocations
    /\ Len(invocations.items) = 2
    /\ Len(CalldataBytes(1)) = 10000 /\ Len(CalldataBytes(2)) = 31

Unreadable ==
    \/ \E i \in 1..Len(tokens.items) : ~("address" \in DOMAIN tokens.items[i])
    \/ \E i \in 1..Len(invocations.items) : invocations.items[i].type # "Invocation"

(* C8 as stated: arguments that are not sequences of correctly typed        *)
(* elements are rejected with a precondition failure raised to the caller,  *)
(* and no transaction is submitted.                                         *)
C8_Original ==
    (op = "execute" /\ Returned /\ ~(WellTypedTokens /\ WellTypedInvocations)) =>
        (outcome = Raise("AssertionError") /\ remote = <<>>)

(* C8 amended: execute checks before any remote interaction only that       *)
(* tokens and invocations are lists; if either is not, an assertion failure *)
(* is raised to the caller and nothing is submitted.  Element types are not *)
(* checked: an element the encoder cannot read (a token without an address  *)
(* attribute, an invocation element that is not an Invocation) makes        *)
(* execute return None, again with nothing submitted.                       *)
C8_ListCheckOnly ==
    op = "execute" =>
        /\ (~IsList(tokens) \/ ~IsList(invocations)) =>
              /\ remote = <<>> /\ pc \in {"start", "done"}
              /\ Returned => outcome = Raise("AssertionError")
        /\ (IsList(tokens) /\ IsList(invocations) /\ Unreadable) =>
              /\ remote = <<>> /\ pc \in {"start", "done"}
              /\ Returned => outcome = Return(None)

C8_Witness ==
    /\ op = "execute" /\ Returned
    /\ tokens = PyTuple(<<AddrA, AddrB>>) /\ WellTypedInvocations
    /\ outcome = Raise("AssertionError")

(* C9: Invocation(address, calldata) raises when address is not an Address  *)
(* or calldata is not a Calldata, leaving no field set on any object; with  *)
(* well-typed arguments the object holds exactly the arguments.             *)
C9_InvocationChecked ==
    (op = "Invocation" /\ Returned) =>
        IF address.type = "Address" /\ calldata.type = "Calldata"
        THEN /\ outcome.kind = "return"
             /\ outcome.value = self
             /\ self.type = "Invocation"
             /\ self.address = address
             /\ self.calldata = calldata
        ELSE /\ outcome = Raise("AssertionError")
             /\ DOMAIN self = {"type"}

C9_Witness ==
    /\ op = "Invocation" /\ Returned
    /\ address = AddrA /\ calldata.type = "str"
    /\ outcome.kind = "raise"

(* C10: within an execute call the arguments are encoded first, then there  *)
(* is one transact, then at most one receipt resolution, made only after    *)
(* the transact returned a hash and with that hash; a result other than     *)
(* None is the value the resolver returned.                                 *)
C10_StepOrder ==
    op = "execute" =>
        /\ Len(remote) <= 2
        /\ pc = "transact" => (remote = <<>> /\ args.type = "args")
        /\ Len(remote) >= 1 =>
              /\ remote[1].op = "transact.execute"
              /\ args.type = "args"
              /\ remote[1].tokens = args.tokens
              /\ remote[1].script = args.script
        /\ (pc = "resolve") => (Len(remote) = 1 /\ remote[1].result = Return(tx_hash))
        /\ Len(remote) = 2 =>
              /\ remote[2].op = "_prepare_receipt"
              /\ remote[1].result.kind = "return"
              /\ remote[2].tx_hash = remote[1].result.value
        /\ (Returned /\ WellTypedTokens /\ WellTypedInvocations) => Len(remote) >= 1
        /\ (Returned /\ outcome.kind = "return" /\ outcome.value # None) =>
              /\ Len(remote) = 2
              /\ outcome = remote[2].result

C10_Witness ==
    /\ op = "execute" /\ Returned
    /\ Len(remote) = 2
    /\ remote[1].result = Return(Hash("0xbb"))
    /\ outcome = Return(Receipt(Hash("0xbb")))
====
